---- MODULE Spec2Model ----
(***************************************************************************)
(* A model of fastboot.c (the fastboot command-line front end): main's     *)
(* token loop, the deferred reboot intents, load_file, unzip_file,         *)
(* do_flashall, do_oem_command, match_fastboot, open_device and            *)
(* list_devices.                                                           *)
(*                                                                         *)
(* `queue` is the sequence of fb_queue_* calls the program has issued, in  *)
(* call order.  The USB layer (usb_open), the archive library              *)
(* (init_zipfile, lookup_zipentry, get_zipentry_size, decompress_zipentry) *)
(* and the execution engine (fb_execute_queue) are external: their results *)
(* are inputs, drawn from bounded sets at the call.                        *)
(*                                                                         *)
(* argv is read lazily: `argv` holds the tokens the program has read so    *)
(* far, and each step of the token loop draws the tokens that follow.      *)
(* Every behaviour of the program on a complete argv is a behaviour of     *)
(* the model, since main never looks past the command it is parsing.       *)
(***************************************************************************)
EXTENDS Integers, Sequences, FiniteSets, TLC

VARIABLES
    pc,                      \* "start" | "parse" | "drained" | "discover" | "execute" | "exited" | "killed"
    argv,                    \* the tokens of argv[1..] read so far
    ncmd,                    \* iterations of main's while loop so far
    env_serial,              \* getenv("ANDROID_SERIAL"): <<>> (unset) or <<s>>
    serial,                  \* static const char *serial: <<>> (NULL) or <<s>>
    vendor_id,               \* static unsigned short vendor_id
    wants_reboot,            \* main's local
    wants_reboot_bootloader, \* main's local
    queue,                   \* the fb_queue_* calls issued, in order
    mark,                    \* Len(queue) when the current loop iteration began
    usb,                     \* the handle open_device returned: <<>> (0) or <<device>>
    announce,                \* open_device's local
    tries,                   \* usb_open calls made by open_device
    waiting,                 \* times "< waiting for device >" was printed
    stdout,                  \* lines printed by list_devices_callback
    stderr,                  \* the last diagnostic: <<>> or <<kind, argument>>
    engine,                  \* fb_execute_queue: <<>> (not called) or <<handle, queue, status>>
    exit_status,             \* the process's exit status once pc = "exited" (-1 before)
    loaded,                  \* the last load_file call: <<>> or <<name, result>>
    unzipped,                \* the unzip_file calls of the last do_flashall: <<name, result>>s
    heap,                    \* the malloc calls so far: [by, buf, freed, op]
    listed                   \* the bus list_devices enumerated: <<>> (not called) or <<bus>>

vars ==
    << pc, argv, ncmd, env_serial, serial, vendor_id, wants_reboot,
       wants_reboot_bootloader, queue, mark, usb, announce, tries, waiting,
       stdout, stderr, engine, exit_status, loaded, unzipped, heap, listed >>

(***************************************************************************)
(* Bounds of the model.                                                    *)
(***************************************************************************)
MaxCmds ==
    2

MaxOemWords ==
    2

MaxTries ==
    2

(***************************************************************************)
(* Sizes.  TLC's integers are 32 bits wide, so a file size (an off_t, 64   *)
(* bits) is the pair [hi, lo] standing for hi * 2^31 + lo, 0 <= lo < 2^31. *)
(***************************************************************************)
Size(h, l) ==
    [hi |-> h, lo |-> l]

\* (int) of an off_t: the low 32 bits, read as a two's complement int.
\* Bit 31 is hi's parity; the low 31 bits are lo.
ToInt(size) ==
    IF size.hi % 2 = 0 THEN size.lo ELSE size.lo - 2147483647 - 1

(***************************************************************************)
(* The file system the program runs against (an input).                    *)
(***************************************************************************)
Manifest ==
    << <<"dnx.bin", "dnx">>,
       <<"ifwi.bin", "ifwi">>,
       <<"stitch.normalos.bin", "boot">>,
       <<"stitch.preos.bin", "preos">>,
       <<"platform.img.gz", "platform">> >>

EntryNames ==
    { Manifest[i][1] : i \in 1..Len(Manifest) }

Packages ==
    { "pkg.zip", "no_dnx.zip", "no_ifwi.zip", "no_boot.zip", "no_preos.zip",
      "no_platform.zip", "bad_dnx.zip", "bad_boot.zip", "bad_platform.zip" }

PlainFiles ==
    { "f10", "empty", "big", "neg", "sig256", "sig255", "sig257", "bigsig" }

Files ==
    PlainFiles \cup Packages

\* A path that open() cannot open.
NoFile ==
    "nofile"

FileSize(f) ==
    CASE f = "f10"    -> Size(0, 10)
      [] f = "empty"  -> Size(0, 0)
      [] f = "big"    -> Size(2, 10)      \* 2^32 + 10 bytes
      [] f = "neg"    -> Size(1, 0)       \* 2^31 bytes
      [] f = "sig256" -> Size(0, 256)
      [] f = "sig255" -> Size(0, 255)
      [] f = "sig257" -> Size(0, 257)
      [] f = "bigsig" -> Size(2, 256)     \* 2^32 + 256 bytes
      [] OTHER        -> Size(0, 4096)

\* The entries of an archive file the archive library finds in it.
ZipPresent(f) ==
    CASE f = "no_dnx.zip"      -> EntryNames \ {"dnx.bin"}
      [] f = "no_ifwi.zip"     -> EntryNames \ {"ifwi.bin"}
      [] f = "no_boot.zip"     -> EntryNames \ {"stitch.normalos.bin"}
      [] f = "no_preos.zip"    -> EntryNames \ {"stitch.preos.bin"}
      [] f = "no_platform.zip" -> EntryNames \ {"platform.img.gz"}
      [] OTHER                 -> EntryNames

\* The entries whose decompression reports failure.
ZipCorrupt(f) ==
    CASE f = "bad_dnx.zip"      -> {"dnx.bin"}
      [] f = "bad_boot.zip"     -> {"stitch.normalos.bin"}
      [] f = "bad_platform.zip" -> {"platform.img.gz"}
      [] OTHER                  -> {}

\* get_zipentry_size of each entry.
EntrySize(name) ==
    CASE name = "dnx.bin"             -> 100
      [] name = "ifwi.bin"            -> 999
      [] name = "stitch.normalos.bin" -> 1000
      [] name = "stitch.preos.bin"    -> 2000
      [] OTHER                        -> 5000

(***************************************************************************)
(* What the operating system may do to a load: nothing, fail an lseek,     *)
(* fail malloc (malloc(0) may return NULL as well), or cut the read short. *)
(***************************************************************************)
Faults ==
    { "none", "seek", "nomem", "read" }

(***************************************************************************)
(* load_file.  A buffer is [file, len]: the first len bytes of file.  The  *)
(* result says what was returned (ret: <<>> is the null pointer), what was *)
(* stored through _sz, and which resources the call took and gave back.    *)
(***************************************************************************)
LoadResult(r, s, st, o, c, a, f) ==
    [ret |-> r, sz |-> s, stored |-> st, opened |-> o, closed |-> c,
     allocated |-> a, freed |-> f]

load_file(fn, flt) ==
    IF fn \notin Files
    THEN \* fd = open(fn, O_RDONLY); if(fd < 0) return 0;
         LoadResult(<<>>, 0, FALSE, 0, 0, 0, 0)
    ELSE LET sz == IF flt = "seek" THEN -1 ELSE ToInt(FileSize(fn))
         IN  IF sz < 0
             THEN \* sz = lseek(fd, 0, SEEK_END); if(sz < 0) goto oops;
                  \* (a failing lseek(fd, 0, SEEK_SET) takes the same exit)
                  LoadResult(<<>>, 0, FALSE, 1, 1, 0, 0)
             ELSE IF flt = "nomem"
             THEN \* data = malloc(sz); if(data == 0) goto oops;
                  LoadResult(<<>>, 0, FALSE, 1, 1, 0, 0)
             ELSE IF flt = "read"
             THEN \* if(read(fd, data, sz) != sz) goto oops;  oops frees data
                  LoadResult(<<>>, 0, FALSE, 1, 1, 1, 1)
             ELSE \* close(fd); if(_sz) *_sz = sz; return data;
                  LoadResult(<< [file |-> fn, len |-> sz] >>, sz, TRUE, 1, 1, 1, 0)

(***************************************************************************)
(* unzip_file.                                                             *)
(***************************************************************************)
\* datasz = *sz * 1.001, a double product cut to unsigned.  The double
\* nearest 1.001 lies just below it, so for the sizes used here (below
\* 33000) a multiple of 1000 yields one less than the exact quotient.
datasz(sz) ==
    IF sz > 0 /\ sz % 1000 = 0
    THEN (sz * 1001) \div 1000 - 1
    ELSE (sz * 1001) \div 1000

UnzipResult(r, s, st, c, a, f, m) ==
    [ret |-> r, sz |-> s, stored |-> st, capacity |-> c, allocated |-> a,
     freed |-> f, msg |-> m]

unzip_file(zip, name, flt) ==
    IF name \notin ZipPresent(zip)
    THEN \* entry == NULL
         UnzipResult(<<>>, 0, FALSE, 0, 0, 0, <<"archive does not contain", name>>)
    ELSE LET sz == EntrySize(name)
         IN  IF flt = "nomem"
             THEN UnzipResult(<<>>, sz, TRUE, datasz(sz), 0, 0,
                              <<"failed to allocate", name>>)
             ELSE IF name \in ZipCorrupt(zip)
             THEN UnzipResult(<<>>, sz, TRUE, datasz(sz), 1, 1,
                              <<"failed to unzip", name>>)
             ELSE UnzipResult(<< [file |-> name, len |-> sz] >>, sz, TRUE,
                              datasz(sz), 1, 0, <<>>)

(***************************************************************************)
(* The heap: one record per malloc call, in call order.  buf is what the   *)
(* buffer holds once filled, freed says whether free was called on it, op  *)
(* is the queue position it was handed to (0: none).  A record is written  *)
(* when the call that made the allocation returns.                         *)
(***************************************************************************)
Alloc(by, buf, freed, op) ==
    [by |-> by, buf |-> buf, freed |-> freed, op |-> op]

\* Mutant: the buffer is released once its operation is queued.
heap_after_freeing(h, by, r, at) ==
    IF r.allocated = 0
    THEN h
    ELSE Append(h, Alloc(by, r.ret, TRUE, IF r.ret = <<>> THEN 0 ELSE at))

\* The heap after a load_file or unzip_file call with result r, whose
\* buffer, if returned, the caller queues at position `at` (0: nowhere).
heap_after(h, by, r, at) ==
    IF r.allocated = 0
    THEN h
    ELSE Append(h, Alloc(by, r.ret, r.freed = 1, IF r.ret = <<>> THEN 0 ELSE at))

\* The heap after the unzip_file calls rs of do_flashall, the Flash of the
\* k-th entry being queued at position base + k.
RECURSIVE heap_after_entries(_, _, _, _)
heap_after_entries(h, rs, k, base) ==
    IF k > Len(rs) THEN h
    ELSE heap_after_entries(heap_after(h, "unzip_file", rs[k][2], base + k),
                            rs, k + 1, base)

(***************************************************************************)
(* strtoul(s, &endptr, 0) on a string given as its characters.  The value  *)
(* is kept exactly up to 0xffff and as TooBig above it, which is all that  *)
(* (val & ~0xffff) reads; the strings used are far too short to overflow   *)
(* an unsigned long.                                                       *)
(***************************************************************************)
TooBig ==
    65536

DigitVal(c) ==
    CASE c = "0" -> 0 [] c = "1" -> 1 [] c = "2" -> 2 [] c = "3" -> 3
      [] c = "4" -> 4 [] c = "5" -> 5 [] c = "6" -> 6 [] c = "7" -> 7
      [] c = "8" -> 8 [] c = "9" -> 9
      [] c \in {"a", "A"} -> 10 [] c \in {"b", "B"} -> 11
      [] c \in {"c", "C"} -> 12 [] c \in {"d", "D"} -> 13
      [] c \in {"e", "E"} -> 14 [] c \in {"f", "F"} -> 15
      [] OTHER -> 99

At(s, i) ==
    IF i \in 1..Len(s) THEN s[i] ELSE ""

RECURSIVE SkipSpace(_, _)
SkipSpace(s, i) ==
    IF At(s, i) = " " THEN SkipSpace(s, i + 1) ELSE i

\* Accumulate the digits of `base` from position i: <<value, next position>>.
RECURSIVE Digits(_, _, _, _)
Digits(s, i, base, acc) ==
    IF DigitVal(At(s, i)) < base
    THEN LET v == acc * base + DigitVal(At(s, i))
         IN  Digits(s, i + 1, base, IF v > 65535 THEN TooBig ELSE v)
    ELSE <<acc, i>>

\* [val, end]: end is the position endptr is left at (Len(s) + 1 is the
\* terminating NUL); with no digits, endptr = nptr and the value is 0.
strtoul(s) ==
    LET i0   == SkipSpace(s, 1)
        neg  == At(s, i0) = "-"
        i1   == IF At(s, i0) \in {"-", "+"} THEN i0 + 1 ELSE i0
        hex  == At(s, i1) = "0" /\ At(s, i1 + 1) \in {"x", "X"}
                /\ DigitVal(At(s, i1 + 2)) < 16
        base == IF hex THEN 16 ELSE IF At(s, i1) = "0" THEN 8 ELSE 10
        i2   == IF hex THEN i1 + 2 ELSE i1
        d    == Digits(s, i2, base, 0)
    IN  IF d[2] = i2
        THEN [val |-> 0, end |-> 1]
        ELSE [val |-> IF neg /\ d[1] # 0 THEN TooBig ELSE d[1], end |-> d[2]]

\* main, lines 354-357: <<accepted, (unsigned short) val>>.
parse_vendor(s) ==
    LET r == strtoul(s)
    IN  IF r.end # Len(s) + 1 \/ r.val > 65535
        THEN <<FALSE, 0>>
        ELSE <<TRUE, r.val>>

(***************************************************************************)
(* The queue: one record per fb_queue_* call.                              *)
(***************************************************************************)
NoData ==
    <<>>

Op(o, n, t, d, l) ==
    [op |-> o, name |-> n, note |-> t, data |-> d, len |-> l]

fb_queue_flash(ptn, data, sz) ==
    Op("Flash", ptn, "", data, sz)

fb_queue_erase(ptn) ==
    Op("Erase", ptn, "", NoData, 0)

fb_queue_display(var, prettyname) ==
    Op("Display", var, prettyname, NoData, 0)

fb_queue_notice(notice) ==
    Op("Notice", "", notice, NoData, 0)

fb_queue_download(name, data, sz) ==
    Op("Download", name, "", data, sz)

fb_queue_command(cmd, msg) ==
    Op("Command", cmd, msg, NoData, 0)

fb_queue_reboot ==
    Op("Reboot", "", "", NoData, 0)

(***************************************************************************)
(* Devices on the bus (an input of every usb_open call).                   *)
(***************************************************************************)
Ifc(v, c, s, p, sn, w) ==
    [dev_vendor |-> v, ifc_class |-> c, ifc_subclass |-> s, ifc_protocol |-> p,
     serial_number |-> sn, writable |-> w]

\* 0x18d1 Google, fastboot interface
DevGoogle ==
    Ifc(6353, 255, 66, 3, "S1", TRUE)

\* 0x1234: not a whitelisted vendor
DevCustom ==
    Ifc(4660, 255, 66, 3, "S2", TRUE)

\* vendor id 0
DevZero ==
    Ifc(0, 255, 66, 3, "S1", TRUE)

\* 0x8087 Intel, but a mass-storage interface
DevStorage ==
    Ifc(32903, 8, 6, 80, "S1", TRUE)

\* 0x0bb4 HTC, no serial number, not writable
DevNoPerm ==
    Ifc(2996, 255, 66, 3, "", FALSE)

Buses ==
    { <<>>, <<DevGoogle>>, <<DevStorage, DevCustom, DevGoogle>>,
      <<DevZero, DevNoPerm, DevGoogle>> }

(***************************************************************************)
(* match_fastboot: 0 accepts, -1 rejects.                                  *)
(***************************************************************************)
Whitelist ==
    { 6353,    \* 0x18d1 Google
      1105,    \* 0x0451
      1282,    \* 0x0502
      4046,    \* 0x0fce Sony Ericsson
      1478,    \* 0x05c6 Qualcomm
      8888,    \* 0x22b8 Motorola
      2389,    \* 0x0955 Nvidia
      16700,   \* 0x413c DELL
      32903,   \* 0x8087 Intel
      2996 }   \* 0x0bb4 HTC

\* Mutant: the -i override is ignored; only the whitelist counts.
match_fastboot_whitelist_only(info) ==
    IF info.dev_vendor \notin Whitelist THEN -1
    ELSE IF info.ifc_class # 255 THEN -1
    ELSE IF info.ifc_subclass # 66 THEN -1
    ELSE IF info.ifc_protocol # 3 THEN -1
    ELSE IF serial # <<>> /\ serial[1] # info.serial_number THEN -1
    ELSE 0

match_fastboot(info) ==
    IF ~(vendor_id # 0 /\ info.dev_vendor = vendor_id)
       /\ info.dev_vendor \notin Whitelist
    THEN -1
    ELSE IF info.ifc_class # 255 THEN -1
    ELSE IF info.ifc_subclass # 66 THEN -1
    ELSE IF info.ifc_protocol # 3 THEN -1
    ELSE IF serial # <<>> /\ serial[1] # info.serial_number THEN -1
    ELSE 0

\* The line list_devices_callback prints for a device, if any.
list_devices_callback(info) ==
    IF match_fastboot(info) = 0
    THEN LET s1 == IF ~info.writable THEN "no permissions" ELSE info.serial_number
             s2 == IF s1 = "" THEN "????????????" ELSE s1
         IN  << s2 \o "\tfastboot" >>
    ELSE <<>>

\* usb_open(match_fastboot): the first interface the callback accepts.
RECURSIVE usb_open_match(_)
usb_open_match(bus) ==
    IF bus = <<>> THEN <<>>
    ELSE IF match_fastboot(Head(bus)) = 0 THEN << Head(bus) >>
    ELSE usb_open_match(Tail(bus))

\* Mutant: the enumeration stops at the first interface that matches.
RECURSIVE usb_open_list_first(_)
usb_open_list_first(bus) ==
    IF bus = <<>> THEN <<>>
    ELSE IF match_fastboot(Head(bus)) = 0 THEN list_devices_callback(Head(bus))
    ELSE usb_open_list_first(Tail(bus))

\* usb_open(list_devices_callback): the callback never accepts, so every
\* interface is visited; the lines it printed, in bus order.
RECURSIVE usb_open_list(_)
usb_open_list(bus) ==
    IF bus = <<>> THEN <<>>
    ELSE list_devices_callback(Head(bus)) \o usb_open_list(Tail(bus))

(***************************************************************************)
(* The tokens argv is drawn from (inputs).                                 *)
(***************************************************************************)
SerialArgs ==
    { "S1", "S2" }

VendorArgs ==
    { "0x1234", "0", "65535", "65536", "zzz", "12ab", "", "-1" }

\* The characters of a -i argument.
Chars(tok) ==
    CASE tok = "0x1234" -> << "0", "x", "1", "2", "3", "4" >>
      [] tok = "0"      -> << "0" >>
      [] tok = "65535"  -> << "6", "5", "5", "3", "5" >>
      [] tok = "65536"  -> << "6", "5", "5", "3", "6" >>
      [] tok = "zzz"    -> << "z", "z", "z" >>
      [] tok = "12ab"   -> << "1", "2", "a", "b" >>
      [] tok = "-1"     -> << "-", "1" >>
      [] OTHER          -> << >>

VarNames ==
    { "version", "reboot", "-s" }

Partitions ==
    { "boot" }

FlashFiles ==
    { "f10", "empty", "big", "neg", NoFile }

SigFiles ==
    { "sig256", "sig255", "sig257", "bigsig", NoFile }

FlashallFiles ==
    Packages \cup { "f10", NoFile }

\* A word of 128 characters.
LongWord ==
    "xxxxxxxxxxxxxxxxxxxxxxxxxxxxxxxxxxxxxxxxxxxxxxxxxxxxxxxxxxxxxxxx"
    \o "xxxxxxxxxxxxxxxxxxxxxxxxxxxxxxxxxxxxxxxxxxxxxxxxxxxxxxxxxxxxxxxx"

OemWords ==
    { "reboot", LongWord }

\* Leading tokens main does not recognise inside the loop.  "devices" and
\* "help" are commands only as the first token.
Unrecognized ==
    { "bogus" } \cup (IF argv = <<>> THEN {} ELSE { "devices", "help" })

(***************************************************************************)
(* Initial state: main is entered; the statics hold their initialisers.    *)
(***************************************************************************)
Init ==
    /\ pc = "start"
    /\ argv = <<>>
    /\ ncmd = 0
    /\ env_serial \in { <<>>, <<"S1">> }
    /\ serial = <<>>
    /\ vendor_id = 0
    /\ wants_reboot = 0
    /\ wants_reboot_bootloader = 0
    /\ queue = <<>>
    /\ mark = 0
    /\ usb = <<>>
    /\ announce = 1
    /\ tries = 0
    /\ waiting = 0
    /\ stdout = <<>>
    /\ stderr = <<>>
    /\ engine = <<>>
    /\ exit_status = -1
    /\ loaded = <<>>
    /\ unzipped = <<>>
    /\ heap = <<>>
    /\ listed = <<>>

filter ==
    << serial, vendor_id >>

intents ==
    << wants_reboot, wants_reboot_bootloader >>

device ==
    << usb, announce, tries, waiting, engine, listed >>

files ==
    << loaded, unzipped, heap >>

\* exit(code) or main's return code, after printing msg to stderr.
Exits(code, msg) ==
    /\ pc' = "exited"
    /\ exit_status' = code
    /\ stderr' = msg

\* usage(); exit(1);
UsageExit ==
    Exits(1, <<"usage", "">>)

\* die(fmt, arg)
die(fmt, arg) ==
    Exits(1, <<fmt, arg>>)

\* One iteration of main's while loop reads these tokens.
Reads(tokens) ==
    /\ pc = "parse"
    /\ ncmd < MaxCmds
    /\ argv' = argv \o tokens
    /\ ncmd' = ncmd + 1
    /\ mark' = Len(queue)

Continue ==
    /\ pc' = "parse"
    /\ UNCHANGED << exit_status, stderr >>

(***************************************************************************)
(* main, lines 326-343.                                                    *)
(***************************************************************************)
main_noargs ==
    /\ pc = "start"
    /\ UsageExit
    /\ UNCHANGED << argv, ncmd, env_serial, filter, intents, queue, mark,
                    device, stdout, files >>

main_devices ==
    /\ pc = "start"
    /\ argv' = <<"devices">>
    /\ \E bus \in Buses :
          /\ stdout' = usb_open_list(bus)
          /\ listed' = << bus >>
    /\ pc' = "exited"
    /\ exit_status' = 0
    /\ UNCHANGED << ncmd, env_serial, filter, intents, queue, mark, usb,
                    announce, tries, waiting, engine, stderr, files >>

main_help ==
    /\ pc = "start"
    /\ argv' = <<"help">>
    /\ Exits(0, <<"usage", "">>)
    /\ UNCHANGED << ncmd, env_serial, filter, intents, queue, mark, device,
                    stdout, files >>

main_getenv ==
    /\ pc = "start"
    /\ serial' = env_serial
    /\ pc' = "parse"
    /\ UNCHANGED << argv, ncmd, env_serial, vendor_id, intents, queue, mark,
                    device, stdout, stderr, exit_status, files >>

(***************************************************************************)
(* main's while loop, one action per branch (lines 345-404).               *)
(***************************************************************************)
\* Mutant: ANDROID_SERIAL, when set, wins over -s.
cmd_s_env_wins ==
    \/ /\ Reads(<<"-s">>)
       /\ UsageExit
       /\ UNCHANGED << env_serial, filter, intents, queue, device, stdout, files >>
    \/ \E a \in SerialArgs :
          /\ Reads(<<"-s", a>>)
          /\ serial' = IF env_serial # <<>> THEN env_serial ELSE <<a>>
          /\ Continue
          /\ UNCHANGED << env_serial, vendor_id, intents, queue, device, stdout,
                          files >>

cmd_s ==
    \/ /\ Reads(<<"-s">>)                     \* require(2) fails
       /\ UsageExit
       /\ UNCHANGED << env_serial, filter, intents, queue, device, stdout, files >>
    \/ \E a \in SerialArgs :
          /\ Reads(<<"-s", a>>)
          /\ serial' = <<a>>
          /\ Continue
          /\ UNCHANGED << env_serial, vendor_id, intents, queue, device, stdout,
                          files >>

cmd_i ==
    \/ /\ Reads(<<"-i">>)                     \* require(2) fails
       /\ UsageExit
       /\ UNCHANGED << env_serial, filter, intents, queue, device, stdout, files >>
    \/ \E a \in VendorArgs :
          LET r == parse_vendor(Chars(a))
          IN  /\ Reads(<<"-i", a>>)
              /\ IF r[1]
                 THEN vendor_id' = r[2] /\ Continue
                 ELSE die("invalid vendor id", a) /\ UNCHANGED vendor_id
              /\ UNCHANGED << env_serial, serial, intents, queue, device, stdout,
                              files >>

cmd_getvar ==
    \/ /\ Reads(<<"getvar">>)                 \* require(2) fails
       /\ UsageExit
       /\ UNCHANGED << env_serial, filter, intents, queue, device, stdout, files >>
    \/ \E a \in VarNames :
          /\ Reads(<<"getvar", a>>)
          /\ queue' = Append(queue, fb_queue_display(a, a))
          /\ Continue
          /\ UNCHANGED << env_serial, filter, intents, device, stdout, files >>

cmd_erase ==
    \/ /\ Reads(<<"erase">>)                  \* require(2) fails
       /\ UsageExit
       /\ UNCHANGED << env_serial, filter, intents, queue, device, stdout, files >>
    \/ \E a \in Partitions :
          /\ Reads(<<"erase", a>>)
          /\ queue' = Append(queue, fb_queue_erase(a))
          /\ Continue
          /\ UNCHANGED << env_serial, filter, intents, device, stdout, files >>

\* What the signature branch does with the file it loaded:
\* <<>> to go on (the calls to queue), or the die message.
signature_check(r, fn) ==
    IF r.ret = <<>> THEN [die |-> <<"could not load", fn>>, ops |-> <<>>]
    ELSE IF r.sz # 256 THEN [die |-> <<"signature must be 256 bytes", "">>, ops |-> <<>>]
    ELSE [die |-> <<>>,
          ops |-> << fb_queue_download("signature", r.ret, r.sz),
                     fb_queue_command("signature", "installing signature") >>]

cmd_signature ==
    \/ /\ Reads(<<"signature">>)              \* require(2) fails
       /\ UsageExit
       /\ UNCHANGED << env_serial, filter, intents, queue, device, stdout, files >>
    \/ \E fn \in SigFiles, flt \in Faults :
          LET r == load_file(fn, flt)
              c == signature_check(r, fn)
          IN  /\ Reads(<<"signature", fn>>)
              /\ loaded' = <<fn, r>>
              /\ heap' = heap_after(heap, "load_file", r,
                                    IF c.die # <<>> THEN 0 ELSE Len(queue) + 1)
              /\ IF c.die # <<>>
                 THEN die(c.die[1], c.die[2]) /\ UNCHANGED queue
                 ELSE queue' = queue \o c.ops /\ Continue
              /\ UNCHANGED << env_serial, filter, intents, device, stdout, unzipped >>

cmd_reboot ==
    /\ Reads(<<"reboot">>)
    /\ wants_reboot' = 1
    /\ Continue
    /\ UNCHANGED << env_serial, filter, wants_reboot_bootloader, queue, device,
                    stdout, files >>

cmd_reboot_bootloader ==
    /\ Reads(<<"reboot-bootloader">>)
    /\ wants_reboot_bootloader' = 1
    /\ Continue
    /\ UNCHANGED << env_serial, filter, wants_reboot, queue, device, stdout,
                    files >>

cmd_continue ==
    /\ Reads(<<"continue">>)
    /\ queue' = Append(queue, fb_queue_command("continue", "resuming boot"))
    /\ Continue
    /\ UNCHANGED << env_serial, filter, intents, device, stdout, files >>

cmd_flash ==
    \/ /\ \/ Reads(<<"flash">>)               \* require(3) fails
          \/ \E p \in Partitions : Reads(<<"flash", p>>)
       /\ UsageExit
       /\ UNCHANGED << env_serial, filter, intents, queue, device, stdout, files >>
    \/ \E pname \in Partitions, fname \in FlashFiles, flt \in Faults :
          LET r == load_file(fname, flt)
          IN  /\ Reads(<<"flash", pname, fname>>)
              /\ loaded' = <<fname, r>>
              /\ heap' = heap_after(heap, "load_file", r, Len(queue) + 1)
              /\ IF r.ret = <<>>
                 THEN die("cannot load", fname) /\ UNCHANGED queue
                 ELSE queue' = Append(queue, fb_queue_flash(pname, r.ret, r.sz))
                      /\ Continue
              /\ UNCHANGED << env_serial, filter, intents, device, stdout, unzipped >>

(***************************************************************************)
(* flashall.                                                               *)
(***************************************************************************)
\* Mutant: the two Display operations are queued after the closing Notice.
queue_info_dump_late(q) ==
    q \o << fb_queue_notice("--------------------------------------------"),
            fb_queue_notice("--------------------------------------------"),
            fb_queue_display("preos", "Current Pre-OS Version "),
            fb_queue_display("ifwi", "Current IFWI Version   ") >>

queue_info_dump(q) ==
    q \o << fb_queue_notice("--------------------------------------------"),
            fb_queue_display("preos", "Current Pre-OS Version "),
            fb_queue_display("ifwi", "Current IFWI Version   "),
            fb_queue_notice("--------------------------------------------") >>

\* init_zipfile(zdata, zsize): does the archive library accept the bytes?
init_zipfile(fn) ==
    fn \in Packages

\* do_flashall, lines 258-276, from manifest entry k on.  fk is the entry
\* whose malloc fails (0: none).  died is the entry whose unzip_file
\* returned 0 (0: none).
\* Mutant: an entry that cannot be extracted is skipped, not fatal.
RECURSIVE flash_entries_skip(_, _, _, _, _)
flash_entries_skip(zip, k, fk, q, rs) ==
    IF k > Len(Manifest)
    THEN [queue |-> q, died |-> 0, unzipped |-> rs]
    ELSE LET name == Manifest[k][1]
             r    == unzip_file(zip, name, IF fk = k THEN "nomem" ELSE "none")
         IN  IF r.ret = <<>>
             THEN flash_entries_skip(zip, k + 1, fk, q, rs)
             ELSE flash_entries_skip(zip, k + 1, fk,
                                     Append(q, fb_queue_flash(Manifest[k][2], r.ret, r.sz)),
                                     Append(rs, <<name, r>>))

RECURSIVE flash_entries(_, _, _, _, _)
flash_entries(zip, k, fk, q, rs) ==
    IF k > Len(Manifest)
    THEN [queue |-> q, died |-> 0, unzipped |-> rs]
    ELSE LET name == Manifest[k][1]
             r    == unzip_file(zip, name, IF fk = k THEN "nomem" ELSE "none")
         IN  IF r.ret = <<>>
             THEN [queue |-> q, died |-> k, unzipped |-> Append(rs, <<name, r>>)]
             ELSE flash_entries(zip, k + 1, fk,
                                Append(q, fb_queue_flash(Manifest[k][2], r.ret, r.sz)),
                                Append(rs, <<name, r>>))

\* do_flashall(fn): the queue it leaves and how it ended:
\* "ok", "load" (die, line 253), "zip" (die, line 256) or "entry" (die
\* naming manifest entry `died`).
do_flashall(q, fn, lflt, fk) ==
    LET q0 == queue_info_dump(q)
        z  == load_file(fn, lflt)
    IN  IF z.ret = <<>>
        THEN [queue |-> q0, end |-> "load", died |-> 0, loaded |-> <<fn, z>>,
              unzipped |-> <<>>]
        ELSE IF ~init_zipfile(fn)
        THEN [queue |-> q0, end |-> "zip", died |-> 0, loaded |-> <<fn, z>>,
              unzipped |-> <<>>]
        ELSE LET e == flash_entries(fn, 1, fk, q0, <<>>)
             IN  [queue |-> e.queue, end |-> IF e.died = 0 THEN "ok" ELSE "entry",
                  died |-> e.died, loaded |-> <<fn, z>>, unzipped |-> e.unzipped]

cmd_flashall ==
    \/ /\ Reads(<<"flashall">>)               \* require(2) fails
       /\ UsageExit
       /\ UNCHANGED << env_serial, filter, intents, queue, device, stdout, files >>
    \/ \E fn \in FlashallFiles, lflt \in Faults, fk \in 0..Len(Manifest) :
          LET f == do_flashall(queue, fn, lflt, fk)
          IN  /\ Reads(<<"flashall", fn>>)
              /\ queue' = f.queue
              /\ loaded' = f.loaded
              /\ unzipped' = f.unzipped
              /\ heap' = heap_after_entries(
                             heap_after(heap, "load_file", f.loaded[2], 0),
                             f.unzipped, 1, Len(queue) + 4)
              /\ CASE f.end = "ok" ->
                        wants_reboot' = 1 /\ Continue
                   [] f.end = "load" ->
                        die("failed to load", fn) /\ UNCHANGED wants_reboot
                   [] f.end = "zip" ->
                        \* die("failed to access zipdata in '%s'") has no
                        \* argument for its %s: vfprintf reads a pointer that
                        \* was never passed.  Either it prints what it finds
                        \* and exit(1) follows, or the read faults and the
                        \* process is killed by a signal.
                        /\ \/ die("failed to access zipdata in", "?")
                           \/ /\ pc' = "killed"
                              /\ stderr' = <<"error: ", "">>
                              /\ UNCHANGED exit_status
                        /\ UNCHANGED wants_reboot
                   [] OTHER ->
                        die("package missing", Manifest[f.died][1])
                        /\ UNCHANGED wants_reboot
              /\ UNCHANGED << env_serial, filter, wants_reboot_bootloader, device,
                              stdout >>

(***************************************************************************)
(* oem.                                                                    *)
(***************************************************************************)
RECURSIVE SeqsUpTo(_, _)
SeqsUpTo(S, n) ==
    IF n = 0 THEN { <<>> }
    ELSE LET shorter == SeqsUpTo(S, n - 1)
         IN  shorter \cup { Append(w, x) : w \in shorter, x \in S }

\* The loop of do_oem_command: strcat each token, a space between two.
RECURSIVE oem_join(_)
oem_join(toks) ==
    IF Len(toks) = 1 THEN toks[1]
    ELSE toks[1] \o " " \o oem_join(Tail(toks))

\* do_oem_command(argc, argv) on the tokens from "oem" on: the command it
\* queues (<<>>: none) and whether it wrote past command[256].
do_oem_command(toks) ==
    IF Len(toks) <= 1
    THEN [ops |-> <<>>, overflow |-> FALSE]
    ELSE LET command == oem_join(toks)
         IN  [ops |-> << fb_queue_command(command, "") >>,
              overflow |-> Len(command) > 255]

cmd_oem ==
    \E words \in SeqsUpTo(OemWords, MaxOemWords) :
       LET toks == <<"oem">> \o words
           o    == do_oem_command(toks)
       IN  /\ Reads(toks)
           \* strcat past the end of command[256] is undefined: the process
           \* is killed (stack protector, fault) or runs on.
           /\ \/ /\ queue' = queue \o o.ops
                 /\ pc' = "drained"            \* argc = 0
                 /\ UNCHANGED << exit_status, stderr >>
              \/ /\ o.overflow
                 /\ pc' = "killed"
                 /\ UNCHANGED << queue, exit_status, stderr >>
           /\ UNCHANGED << env_serial, filter, intents, device, stdout, files >>

\* Mutant: `devices` is also recognised inside the loop, after the options.
cmd_unrecognized_lists ==
    \E t \in Unrecognized :
       /\ Reads(<<t>>)
       /\ IF t = "devices"
          THEN /\ \E bus \in Buses :
                    /\ stdout' = usb_open_list(bus)
                    /\ listed' = << bus >>
               /\ Exits(0, stderr)
          ELSE UsageExit /\ UNCHANGED << stdout, listed >>
       /\ UNCHANGED << env_serial, filter, intents, queue, usb, announce, tries,
                       waiting, engine, files >>

cmd_unrecognized ==
    \E t \in Unrecognized :
       /\ Reads(<<t>>)
       /\ UsageExit
       /\ UNCHANGED << env_serial, filter, intents, queue, device, stdout, files >>

(***************************************************************************)
(* After the loop: lines 406-415.                                          *)
(***************************************************************************)
\* Mutant: both intents are honoured, the bootloader command last.
resolve_reboot_both(q, wr, wrb) ==
    LET q1 == IF wr # 0 THEN Append(q, fb_queue_reboot) ELSE q
    IN  IF wrb # 0
        THEN Append(q1, fb_queue_command("reboot-bootloader", "rebooting into bootloader"))
        ELSE q1

\* Mutant: reboot-bootloader takes priority over reboot.
resolve_reboot_swapped(q, wr, wrb) ==
    IF wrb # 0
    THEN Append(q, fb_queue_command("reboot-bootloader", "rebooting into bootloader"))
    ELSE IF wr # 0 THEN Append(q, fb_queue_reboot)
    ELSE q

resolve_reboot(q, wr, wrb) ==
    IF wr # 0 THEN Append(q, fb_queue_reboot)
    ELSE IF wrb # 0
    THEN Append(q, fb_queue_command("reboot-bootloader", "rebooting into bootloader"))
    ELSE q

\* argc > 0 is false: the loop ends and the deferred intent is resolved.
main_resolve ==
    /\ \/ pc = "parse" /\ argv # <<>>
       \/ pc = "drained"
    /\ queue' = resolve_reboot(queue, wants_reboot, wants_reboot_bootloader)
    /\ pc' = "discover"
    /\ announce' = 1
    /\ UNCHANGED << argv, ncmd, env_serial, filter, intents, mark, usb, tries,
                    waiting, engine, stdout, listed, stderr, exit_status, files >>

\* Mutant: announce is never cleared, so each failed attempt prints.
open_device_announces_again ==
    /\ pc = "discover"
    /\ \E bus \in Buses :
          LET h == usb_open_match(bus)
          IN  IF h # <<>>
              THEN /\ usb' = h
                   /\ pc' = "execute"
                   /\ tries' = tries + 1
                   /\ UNCHANGED << announce, waiting >>
              ELSE /\ tries < MaxTries
                   /\ tries' = tries + 1
                   /\ waiting' = waiting + announce
                   /\ UNCHANGED << announce, usb, pc >>
    /\ UNCHANGED << argv, ncmd, env_serial, filter, intents, queue, mark, engine,
                    stdout, listed, stderr, exit_status, files >>

\* Mutant: a second failed attempt is reported as an error.
open_device_gives_up ==
    /\ pc = "discover"
    /\ \E bus \in Buses :
          LET h == usb_open_match(bus)
          IN  IF h # <<>>
              THEN /\ usb' = h
                   /\ pc' = "execute"
                   /\ tries' = tries + 1
                   /\ UNCHANGED << announce, waiting, exit_status, stderr >>
              ELSE /\ tries < MaxTries
                   /\ tries' = tries + 1
                   /\ waiting' = waiting + announce
                   /\ announce' = 0
                   /\ IF tries >= 1
                      THEN die("no device", "")
                      ELSE UNCHANGED << pc, exit_status, stderr >>
                   /\ UNCHANGED usb
    /\ UNCHANGED << argv, ncmd, env_serial, filter, intents, queue, mark, engine,
                    stdout, listed, files >>

\* One pass of open_device's for(;;): usb_open, then return or wait.
open_device ==
    /\ pc = "discover"
    /\ \E bus \in Buses :
          LET h == usb_open_match(bus)
          IN  IF h # <<>>
              THEN /\ usb' = h
                   /\ pc' = "execute"
                   /\ tries' = tries + 1
                   /\ UNCHANGED << announce, waiting >>
              ELSE /\ tries < MaxTries
                   /\ tries' = tries + 1
                   /\ waiting' = waiting + announce
                   /\ announce' = 0
                   /\ UNCHANGED << usb, pc >>
    /\ UNCHANGED << argv, ncmd, env_serial, filter, intents, queue, mark, engine,
                    stdout, listed, stderr, exit_status, files >>

\* Mutant: the engine is run without waiting for open_device to return.
main_execute_unopened ==
    /\ pc \in { "discover", "execute" }
    /\ \E status \in { 0, -1 } :
          /\ engine' = << usb, queue, status >>
          /\ Exits(IF status # 0 THEN 1 ELSE 0, stderr)
    /\ UNCHANGED << argv, ncmd, env_serial, filter, intents, queue, mark, usb,
                    announce, tries, waiting, stdout, listed, files >>

\* status = fb_execute_queue(usb); return (status) ? 1 : 0;
main_execute ==
    /\ pc = "execute"
    /\ \E status \in { 0, -1 } :
          /\ engine' = << usb, queue, status >>
          /\ Exits(IF status # 0 THEN 1 ELSE 0, stderr)
    /\ UNCHANGED << argv, ncmd, env_serial, filter, intents, queue, mark, usb,
                    announce, tries, waiting, stdout, listed, files >>

Next ==
    \/ main_noargs
    \/ main_devices
    \/ main_help
    \/ main_getenv
    \/ cmd_s
    \/ cmd_i
    \/ cmd_getvar
    \/ cmd_erase
    \/ cmd_signature
    \/ cmd_reboot
    \/ cmd_reboot_bootloader
    \/ cmd_continue
    \/ cmd_flash
    \/ cmd_flashall
    \/ cmd_oem
    \/ cmd_unrecognized
    \/ main_resolve
    \/ open_device
    \/ main_execute

Spec ==
    Init /\ [][Next]_vars

\* open_device's loop runs on: sleep(1) returns and the next usb_open is
\* made.  Nothing is assumed about a device ever being plugged in.
LiveSpec ==
    Spec /\ WF_vars(open_device)

(***************************************************************************)
(* The command table of the specification (section 4.5), read off argv     *)
(* without reference to main: what the properties below compare main to.   *)
(***************************************************************************)
Arity(tok) ==
    CASE tok \in { "-s", "-i", "getvar", "erase", "signature", "flashall" } -> 2
      [] tok = "flash" -> 3
      [] tok \in { "reboot", "reboot-bootloader", "continue" } -> 1
      [] OTHER -> 0                  \* oem takes the rest; others are no commands

\* argv cut into commands: each a leading token with the tokens it takes.
RECURSIVE TableParse(_)
TableParse(toks) ==
    IF toks = <<>> THEN <<>>
    ELSE LET n == IF Arity(toks[1]) = 0 \/ Arity(toks[1]) > Len(toks)
                  THEN Len(toks) ELSE Arity(toks[1])
         IN  << SubSeq(toks, 1, n) >> \o TableParse(SubSeq(toks, n + 1, Len(toks)))

Commands ==
    TableParse(argv)

LastCommand ==
    Commands[Len(Commands)]

\* A recognised command with the right number of following tokens.
WellFormedCommand(c) ==
    \/ Arity(c[1]) > 0 /\ Len(c) = Arity(c[1])
    \/ c[1] = "oem" /\ Len(c) >= 2

\* Some command of argv has one of these leading tokens.
Given(leads) ==
    \E i \in 1..Len(Commands) : Commands[i][1] \in leads

\* The operations appended since the current command began.
Appended ==
    SubSeq(queue, mark + 1, Len(queue))

IsFlash(o, ptn, file, size) ==
    /\ o.op = "Flash" /\ o.name = ptn
    /\ o.data = << [file |-> file, len |-> o.len] >>
    /\ Size(0, o.len) = size

IsDownload(o, tag, file, size) ==
    /\ o.op = "Download" /\ o.name = tag
    /\ o.data = << [file |-> file, len |-> o.len] >>
    /\ Size(0, o.len) = size

IsCommand(o, name) ==
    o.op = "Command" /\ o.name = name /\ o.data = NoData

IsDisplay(o, var) ==
    o.op = "Display" /\ o.name = var /\ o.data = NoData

\* The package plan as the specification states it: entry, partition.
ClaimedPlan ==
    << <<"dnx.bin", "dnx">>, <<"ifwi.bin", "ifwi">>,
       <<"stitch.normalos.bin", "boot">>, <<"stitch.preos.bin", "preos">>,
       <<"platform.img.gz", "platform">> >>

\* q is the information dump followed by the Flash operations of the
\* first n entries of the plan.
PlanFits(q, n) ==
    /\ Len(q) = 4 + n
    /\ q[1].op = "Notice" /\ IsDisplay(q[2], "preos")
    /\ IsDisplay(q[3], "ifwi") /\ q[4].op = "Notice"
    /\ \A k \in 1..n :
          IsFlash(q[4 + k], ClaimedPlan[k][2], ClaimedPlan[k][1],
                  Size(0, EntrySize(ClaimedPlan[k][1])))

\* The plan of flashall for a package whose five entries all extract.
FlashallFits(q) ==
    PlanFits(q, 5)

\* How many operations the table gives a command.
EffectLen(c) ==
    CASE c[1] \in { "getvar", "erase", "continue", "flash", "oem" } -> 1
      [] c[1] = "signature" -> 2
      [] c[1] = "flashall" -> 9
      [] OTHER -> 0

\* Do the operations q match the table's effect of command c?
EffectFits(c, q) ==
    /\ Len(q) = EffectLen(c)
    /\ CASE c[1] = "getvar" -> IsDisplay(q[1], c[2]) /\ q[1].note = c[2]
         [] c[1] = "erase" -> q[1].op = "Erase" /\ q[1].name = c[2]
         [] c[1] = "continue" -> IsCommand(q[1], "continue")
         [] c[1] = "flash" -> IsFlash(q[1], c[2], c[3], FileSize(c[3]))
         [] c[1] = "signature" ->
              /\ IsDownload(q[1], "signature", c[2], Size(0, 256))
              /\ FileSize(c[2]) = Size(0, 256)
              /\ IsCommand(q[2], "signature")
         [] c[1] = "flashall" -> FlashallFits(q)
         [] c[1] = "oem" -> q[1].op = "Command" /\ q[1].note = ""
         [] OTHER -> TRUE

\* The trailing operation the deferred intents resolve to, per the table.
RebootFits(q) ==
    IF Given({ "reboot", "flashall" })
    THEN Len(q) = 1 /\ q[1].op = "Reboot"
    ELSE IF Given({ "reboot-bootloader" })
    THEN Len(q) = 1 /\ IsCommand(q[1], "reboot-bootloader")
    ELSE q = <<>>

\* q is the concatenation of the effects of commands i.. and the reboot.
RECURSIVE QueueFits(_, _)
QueueFits(i, q) ==
    IF i > Len(Commands) THEN RebootFits(q)
    ELSE LET n == EffectLen(Commands[i])
         IN  /\ Len(q) >= n
             /\ EffectFits(Commands[i], SubSeq(q, 1, n))
             /\ QueueFits(i + 1, SubSeq(q, n + 1, Len(q)))

\* C1: for every argv made of recognised commands with the right number of
\* following tokens, the queue handed to the execution engine is the
\* concatenation, in token order, of each command's table effect (getvar:
\* one Display(name, name); erase: one Erase; flash p f: one Flash of the
\* whole file f with length = file size; continue: one Command;
\* -s, -i, reboot, reboot-bootloader: nothing), the resolved reboot
\* operation last.
C1_QueueIsTableConcatenation ==
    (engine # <<>> /\ \A i \in 1..Len(Commands) : WellFormedCommand(Commands[i]))
        => QueueFits(1, engine[2])

(***************************************************************************)
(* Reboot intents.                                                         *)
(***************************************************************************)
\* The queue is complete: the loop has ended and the intent is resolved.
Completed ==
    pc \in { "discover", "execute" } \/ engine # <<>>

CountOp(q, kind) ==
    Cardinality({ i \in 1..Len(q) : q[i].op = kind })

CountCommand(q, name) ==
    Cardinality({ i \in 1..Len(q) : IsCommand(q[i], name) })

OneRebootLast(q) ==
    /\ CountOp(q, "Reboot") = 1
    /\ q[Len(q)].op = "Reboot"

\* C2 as stated: for every successfully parsed argv in which the token
\* `reboot` or `flashall` occurs, at any position, the completed queue
\* holds exactly one Reboot and it is the final entry.
C2_RebootTokenAnywhere ==
    (Completed /\ \E i \in 1..Len(argv) : argv[i] \in { "reboot", "flashall" })
        => OneRebootLast(queue)

\* C2 amended: for every successfully parsed argv in which `reboot` or
\* `flashall` is parsed as a command (the leading token of a loop
\* iteration, not another command's argument and not a word of oem), once
\* or several times, the completed queue holds exactly one Reboot and it is
\* the final entry.
C2_OneRebootLast ==
    (Completed /\ Given({ "reboot", "flashall" })) => OneRebootLast(queue)

\* flashall and reboot were both parsed, and the engine got the queue.
C2_Witness ==
    /\ engine # <<>>
    /\ Given({ "reboot" })
    /\ Given({ "flashall" })
    /\ OneRebootLast(engine[2])

\* C3: the deferred intents are resolved once, after the whole token
\* stream: while tokens are consumed the queue holds no reboot operation;
\* afterwards, if the plain-reboot intent was set (reboot or flashall) the
\* queue ends in its only Reboot and holds no Command("reboot-bootloader"),
\* whether or not reboot-bootloader was given too; if only
\* reboot-bootloader was given the queue ends in its only
\* Command("reboot-bootloader") and holds no Reboot; if neither, the queue
\* holds no reboot operation of either kind.
C3_IntentResolvedOnce ==
    /\ pc \in { "parse", "drained" } =>
          CountOp(queue, "Reboot") + CountCommand(queue, "reboot-bootloader") = 0
    /\ Completed =>
          IF Given({ "reboot", "flashall" })
          THEN OneRebootLast(queue) /\ CountCommand(queue, "reboot-bootloader") = 0
          ELSE IF Given({ "reboot-bootloader" })
          THEN /\ CountCommand(queue, "reboot-bootloader") = 1
               /\ IsCommand(queue[Len(queue)], "reboot-bootloader")
               /\ CountOp(queue, "Reboot") = 0
          ELSE CountOp(queue, "Reboot") + CountCommand(queue, "reboot-bootloader") = 0

\* Both intents were set, reboot-bootloader first, and the engine got the queue.
C3_Witness ==
    /\ engine # <<>>
    /\ argv = << "reboot-bootloader", "reboot" >>
    /\ wants_reboot = 1 /\ wants_reboot_bootloader = 1
    /\ engine[2] = << fb_queue_reboot >>

(***************************************************************************)
(* Fatal errors and the exit status.                                       *)
(***************************************************************************)
Terminated ==
    pc \in { "exited", "killed" }

\* The loop iteration for a command with this leading token has just run:
\* main is back at the head of the loop, or the iteration ended the process.
JustRan(lead) ==
    /\ ncmd > 0
    /\ LastCommand[1] = lead
    /\ pc = "parse" \/ (Terminated /\ engine = <<>>)

\* C4: in every run where a fatal error is detected while consuming tokens
\* (a diagnostic or the usage text was printed inside the loop), the
\* process terminates with exit status 1, device discovery is never
\* started and the execution engine is never invoked, whatever was already
\* appended to the queue.
C4_FatalErrorExitsOne ==
    (ncmd > 0 /\ stderr # <<>>)
        => /\ pc = "exited" /\ exit_status = 1
           /\ tries = 0 /\ usb = <<>> /\ engine = <<>>

\* C8: `signature <file>` succeeds iff the file loads and its size is
\* exactly 256 bytes; on success it appends exactly Download("signature",
\* 256 bytes) then Command("signature"); for every other size it fails
\* fatally and appends neither.
C8_SignatureIff256 ==
    (JustRan("signature") /\ Len(LastCommand) = 2)
        => LET f == LastCommand[2]
           IN  IF loaded[2].ret # <<>> /\ FileSize(f) = Size(0, 256)
               THEN /\ pc = "parse"
                    /\ Len(Appended) = 2
                    /\ IsDownload(Appended[1], "signature", f, Size(0, 256))
                    /\ IsCommand(Appended[2], "signature")
               ELSE /\ pc = "exited" /\ exit_status = 1
                    /\ Appended = <<>>

\* C10: for every invocation whose first token is neither `devices` nor
\* `help`, the exit status is 0 only if the execution engine was invoked
\* and reported success; it is 1 when the engine reports failure and on
\* every error path (no arguments, usage error, argument error, load
\* error, package error).
C10_ExitStatus ==
    (Terminated /\ (argv = <<>> \/ argv[1] \notin { "devices", "help" }))
        => /\ (pc = "exited" /\ exit_status = 0) => (engine # <<>> /\ engine[3] = 0)
           /\ (engine # <<>> /\ engine[3] # 0) => (pc = "exited" /\ exit_status = 1)
           /\ (engine = <<>> /\ stderr # <<>>) => (pc = "exited" /\ exit_status = 1)

(***************************************************************************)
(* Device matching.                                                        *)
(***************************************************************************)
\* The descriptors match_fastboot is examined on.
Descriptors ==
    { Ifc(v, c, sc, pr, sn, TRUE) :
        v \in { 0, 8, 4660, 6353, 2996, 65535 }, c \in { 255, 8 },
        sc \in { 66, 6 }, pr \in { 3, 80 }, sn \in { "S1", "S2", "" } }

\* The ten vendor ids the source names, in hexadecimal digits.
Hex4(a, b, c, d) ==
    ((a * 16 + b) * 16 + c) * 16 + d

KnownVendors ==
    { Hex4(1, 8, 13, 1), Hex4(0, 4, 5, 1), Hex4(0, 5, 0, 2), Hex4(0, 15, 12, 14),
      Hex4(0, 5, 12, 6), Hex4(2, 2, 11, 8), Hex4(0, 9, 5, 5), Hex4(4, 1, 3, 12),
      Hex4(8, 0, 8, 7), Hex4(0, 11, 11, 4) }

FastbootInterface(d) ==
    d.ifc_class = Hex4(0, 0, 15, 15) /\ d.ifc_subclass = Hex4(0, 0, 4, 2)
    /\ d.ifc_protocol = 3

SerialAccepts(d) ==
    serial = <<>> \/ serial = << d.serial_number >>

\* Some -i command of argv was accepted.
OverrideGiven ==
    \E i \in 1..Len(Commands) : Commands[i][1] = "-i" /\ Len(Commands[i]) = 2

\* C5 as stated: for every descriptor d and every filter the CLI can
\* configure (override unset or any value -i accepts, 0 through 0xffff;
\* serial unset or any string), match_fastboot accepts d iff (d.vendor is
\* the configured override or a whitelisted id) and the interface is
\* (0xff, 0x42, 0x03) and (the serial filter is unset or equals d.serial).
C5_MatchIffAnyOverride ==
    pc = "discover" =>
        \A d \in Descriptors :
            (match_fastboot(d) = 0)
                <=> /\ \/ OverrideGiven /\ d.dev_vendor = vendor_id
                       \/ d.dev_vendor \in KnownVendors
                    /\ FastbootInterface(d)
                    /\ SerialAccepts(d)

\* C5 amended: the same, for an override that is unset or any value from 1
\* through 0xffff; `-i 0` is accepted and leaves the override unset (0 is
\* the value of "no override"), so a device of vendor id 0 is not accepted.
C5_MatchIffNonzeroOverride ==
    /\ Cardinality(Whitelist) = 10
    /\ pc = "discover" =>
          \A d \in Descriptors :
              (match_fastboot(d) = 0)
                  <=> /\ \/ vendor_id # 0 /\ d.dev_vendor = vendor_id
                         \/ d.dev_vendor \in KnownVendors
                      /\ FastbootInterface(d)
                      /\ SerialAccepts(d)

\* open_device accepted a device of a vendor outside the whitelist, on the
\* strength of -i, with a serial filter in force.
C5_Witness ==
    /\ usb = << DevCustom >>
    /\ vendor_id = DevCustom.dev_vendor
    /\ DevCustom.dev_vendor \notin KnownVendors
    /\ serial = << "S2" >>

(***************************************************************************)
(* flashall.                                                               *)
(***************************************************************************)
\* The archive holds all five entries and each decompresses.
AllExtract(fn) ==
    /\ fn \in Packages
    /\ \A k \in 1..5 : ClaimedPlan[k][1] \in ZipPresent(fn) \ ZipCorrupt(fn)

\* The first entry of the plan that is missing or fails to decompress.
FirstBad(fn) ==
    LET bad == { k \in 1..5 : ClaimedPlan[k][1] \notin ZipPresent(fn) \ ZipCorrupt(fn) }
    IN  IF bad = {} THEN 0 ELSE CHOOSE k \in bad : \A j \in bad : k <= j

\* The archive file was loaded and no malloc of unzip_file failed.
PackageLoaded ==
    /\ loaded # <<>> /\ loaded[2].ret # <<>>
    /\ \A i \in 1..Len(unzipped) :
          unzipped[i][2].msg = <<>> \/ unzipped[i][2].msg[1] # "failed to allocate"

\* C6: for a package holding all five manifest entries (each extracted),
\* flashall appends, contiguously and in this order: Notice,
\* Display("preos"), Display("ifwi"), Notice, then exactly five Flash
\* operations to "dnx", "ifwi", "boot", "preos", "platform" from dnx.bin,
\* ifwi.bin, stitch.normalos.bin, stitch.preos.bin, platform.img.gz; both
\* Displays precede every Flash, and each extracted entry yields one Flash.
C6_FlashallPlan ==
    (JustRan("flashall") /\ Len(LastCommand) = 2)
        => /\ (AllExtract(LastCommand[2]) /\ PackageLoaded)
                => (pc = "parse" /\ FlashallFits(Appended))
           /\ pc = "parse"
                => /\ FlashallFits(Appended)
                   /\ \A i, j \in 1..Len(Appended) :
                         (Appended[i].op = "Display" /\ Appended[j].op = "Flash")
                             => i < j
                   /\ CountOp(Appended, "Flash") = Len(unzipped)

\* A flashall that followed queued operations appended its five Flashes.
C6_Witness ==
    /\ JustRan("flashall")
    /\ pc = "parse"
    /\ mark > 0
    /\ CountOp(Appended, "Flash") = 5
    /\ Appended[9].name = "platform"

\* C7: for every manifest position k, when entry k is the first one
\* missing from the package or failing to decompress, flashall fails at
\* once with an error naming that entry: the queue then holds the Flash
\* operations of entries 1..k-1 only (not rolled back) and none for
\* entries k..5, the process exits with status 1, and neither discovery
\* nor execution occurs.
C7_FlashallFailsAtFirstBad ==
    (/\ JustRan("flashall") /\ Len(LastCommand) = 2
     /\ LastCommand[2] \in Packages
     /\ PackageLoaded
     /\ FirstBad(LastCommand[2]) # 0)
        => LET k == FirstBad(LastCommand[2])
           IN  /\ pc = "exited" /\ exit_status = 1
               /\ stderr = << "package missing", ClaimedPlan[k][1] >>
               /\ PlanFits(Appended, k - 1)
               /\ CountOp(Appended, "Flash") = k - 1
               /\ tries = 0 /\ usb = <<>> /\ engine = <<>>

\* flashall died at the third entry, corrupt in the archive, after two
\* Flashes and with an earlier command's operation still queued.
C7_Witness ==
    /\ JustRan("flashall")
    /\ LastCommand = << "flashall", "bad_boot.zip" >>
    /\ pc = "exited"
    /\ stderr = << "package missing", "stitch.normalos.bin" >>
    /\ mark > 0
    /\ CountOp(Appended, "Flash") = 2

(***************************************************************************)
(* -i <vendor-id>.                                                         *)
(***************************************************************************)
\* The value of the digit string s[from..Len(s)] in the given base.
RECURSIVE NumeralValue(_, _, _)
NumeralValue(s, from, base) ==
    IF Len(s) < from
    THEN 0
    ELSE NumeralValue(SubSeq(s, 1, Len(s) - 1), from, base) * base
         + DigitVal(s[Len(s)])

\* s is a numeral (decimal, octal with a leading 0, or hexadecimal with a
\* leading 0x) of an unsigned 16-bit value.
Parseable16(s) ==
    LET hex  == Len(s) >= 3 /\ s[1] = "0" /\ s[2] \in {"x", "X"}
        from == IF hex THEN 3 ELSE 1
        base == IF hex THEN 16 ELSE IF s[1] = "0" THEN 8 ELSE 10
    IN  /\ Len(s) \in 1..7
        /\ \A i \in from..Len(s) : DigitVal(s[i]) < base
        /\ NumeralValue(s, from, base) <= 65535

\* C9: whenever a -i option carries a value that is not parseable as an
\* unsigned 16-bit number, the run fails with an argument error before any
\* queue construction or discovery: at the failure no operation has been
\* appended to the queue, whatever precedes the -i token, and device
\* discovery has not been started.
C9_InvalidVendorFailsEarly ==
    (/\ JustRan("-i") /\ Len(LastCommand) = 2
     /\ ~Parseable16(Chars(LastCommand[2])))
        => /\ pc = "exited" /\ exit_status = 1
           /\ stderr = << "invalid vendor id", LastCommand[2] >>
           /\ queue = <<>>
           /\ tries = 0 /\ usb = <<>>

(***************************************************************************)
(* The order of the phases.                                                *)
(***************************************************************************)
\* open_device has been entered.
DiscoveryStarted ==
    pc \in { "discover", "execute" } \/ engine # <<>>

\* The devices of the buses that the matcher accepts under the filter.
Acceptable ==
    { d \in UNION { { bus[i] : i \in 1..Len(bus) } : bus \in Buses } :
         /\ FastbootInterface(d)
         /\ SerialAccepts(d)
         /\ d.dev_vendor \in KnownVendors \/ (vendor_id # 0 /\ d.dev_vendor = vendor_id) }

\* C11: in every run that reaches execution the phases occur in the order
\* tokens consumed, reboot intent resolved into the queue, discovery
\* returns a handle, engine invoked: discovery starts only from the token
\* loop and with the intent resolved; a handle appears only during
\* discovery; the engine is invoked at most once, after discovery
\* returned, with that handle and the completed queue; once discovery has
\* started no token is read, no operation is appended and the serial and
\* vendor filter are not modified.
C11_PhaseOrder ==
    [][ /\ (~DiscoveryStarted /\ DiscoveryStarted')
            => /\ pc \in { "parse", "drained" } /\ pc' = "discover"
               /\ argv' = argv
               /\ usb' = <<>> /\ engine' = <<>> /\ tries' = 0
               /\ \E n \in { 0, 1 } :
                     /\ Len(queue') = Len(queue) + n
                     /\ SubSeq(queue', 1, Len(queue)) = queue
                     /\ RebootFits(SubSeq(queue', Len(queue) + 1, Len(queue')))
        /\ DiscoveryStarted
            => /\ DiscoveryStarted'
               /\ queue' = queue /\ argv' = argv
               /\ serial' = serial /\ vendor_id' = vendor_id
        /\ usb' # usb
            => /\ pc = "discover" /\ usb = <<>> /\ engine = <<>>
               /\ pc' = "execute"
               /\ usb'[1] \in Acceptable
        /\ engine' # engine
            => /\ pc = "execute" /\ engine = <<>>
               /\ usb # <<>> /\ usb' = usb
               /\ engine'[1] = usb /\ engine'[2] = queue
               /\ pc' = "exited"
      ]_vars

\* The engine ran on a handle found at the second attempt, under a
\* filter set on the command line, with a resolved reboot last.
C11_Witness ==
    /\ engine # <<>>
    /\ engine[1] = usb /\ usb # <<>>
    /\ tries = 2
    /\ serial # <<>> /\ vendor_id # 0
    /\ Len(queue) >= 2 /\ queue[Len(queue)].op = "Reboot"

(***************************************************************************)
(* Acquire-or-wait discovery.                                              *)
(***************************************************************************)
\* C12: across any number of failed enumeration attempts the "waiting for
\* device" notice is printed at most once: it is printed exactly when the
\* first attempt finds no device, never before the first attempt and never
\* again on later retries; when the first attempt succeeds it is not
\* printed at all.
C12_WaitingNoticeOnce ==
    [][ /\ waiting' \in { waiting, waiting + 1 }
        /\ waiting' = waiting + 1
              <=> /\ pc = "discover" /\ tries = 0 /\ waiting = 0
                  /\ tries' = 1 /\ usb' = <<>> /\ pc' = "discover"
      ]_vars

\* The first attempt failed, a later one found the device: one notice.
C12_Witness ==
    /\ pc = "execute"
    /\ usb # <<>>
    /\ tries = MaxTries
    /\ waiting = 1

\* C13: discovery never fails and never gives up: while no attempt yields
\* a matching device it keeps retrying (no error return, no exit,
\* execution does not start); the attempt that yields a matching device
\* ends discovery at once with that device's handle, so the handle
\* returned is that of the first attempt that succeeded; and attempts go
\* on being made until one succeeds (MaxTries stands for "for ever").
C13_DiscoveryNeverGivesUp ==
    /\ [](pc = "discover"
            => /\ usb = <<>> /\ engine = <<>>
               /\ exit_status = -1 /\ stderr = <<>>)
    /\ [][ pc = "discover"
             => /\ tries' = tries + 1
                /\ \/ pc' = "discover" /\ usb' = <<>>
                   \/ pc' = "execute" /\ usb' # <<>> /\ usb'[1] \in Acceptable
         ]_vars
    /\ (pc = "discover") ~> (pc = "execute" \/ tries >= MaxTries)

\* Every attempt the bound allows has failed and discovery is still on.
C13_Witness ==
    /\ pc = "discover"
    /\ tries = MaxTries
    /\ usb = <<>>
    /\ exit_status = -1

(***************************************************************************)
(* devices.                                                                *)
(***************************************************************************)
\* The line printed for a device.
ListingLine(d) ==
    (IF ~d.writable THEN "no permissions"
     ELSE IF d.serial_number = "" THEN "????????????"
     ELSE d.serial_number) \o "\tfastboot"

\* One line per fastboot interface of a known vendor, in bus order.
RECURSIVE ListingOf(_)
ListingOf(bus) ==
    IF bus = <<>> THEN <<>>
    ELSE (IF Head(bus).dev_vendor \in KnownVendors /\ FastbootInterface(Head(bus))
          THEN << ListingLine(Head(bus)) >> ELSE <<>>)
         \o ListingOf(Tail(bus))

\* C14: when the first token is `devices`, the run visits every connected
\* candidate and prints one line per matching device (the listing is a
\* function of the devices present, so two runs with the same devices
\* print the same), leaves the serial filter, the vendor filter and the
\* queue unchanged, makes no acquire-or-wait discovery and no engine
\* execution, and exits with status 0.
C14_DevicesListsAll ==
    (argv # <<>> /\ argv[1] = "devices")
        => /\ pc = "exited" /\ exit_status = 0
           /\ listed # <<>> /\ listed[1] \in Buses
           /\ stdout = ListingOf(listed[1])
           /\ serial = <<>> /\ vendor_id = 0
           /\ queue = <<>>
           /\ usb = <<>> /\ tries = 0 /\ waiting = 0 /\ engine = <<>>
           /\ stderr = <<>>

\* devices listed a bus with two matching interfaces after a rejected one.
C14_Witness ==
    /\ argv = << "devices" >>
    /\ pc = "exited"
    /\ Len(listed[1]) = 3
    /\ stdout = << "no permissions\tfastboot", "S1\tfastboot" >>

(***************************************************************************)
(* The serial filter.                                                      *)
(***************************************************************************)
\* The positions of argv holding the token -s with a token after it.
DashSTokens ==
    { i \in 1..(Len(argv) - 1) : argv[i] = "-s" }

\* The commands of argv that are a -s option with its argument.
DashSCommands ==
    { i \in 1..Len(Commands) : Commands[i] [1] = "-s" /\ Len(Commands[i]) = 2 }

Last(S) ==
    CHOOSE i \in S : \A j \in S : j <= i

\* C15 as stated: the serial filter in force when discovery starts is the
\* token after the last -s token if -s appears anywhere in the token
\* stream, otherwise ANDROID_SERIAL if set, otherwise unset.
C15_SerialFromAnyDashSToken ==
    DiscoveryStarted
        => serial = IF DashSTokens # {}
                    THEN << argv[Last(DashSTokens) + 1] >>
                    ELSE env_serial

\* C15 amended: the serial filter in force when discovery starts is the
\* argument of the last -s parsed as an option (the leading token of a
\* loop iteration, before or after other commands, but not the argument
\* of another command and not a word of oem) if there is one, otherwise
\* ANDROID_SERIAL if set, otherwise unset; ANDROID_SERIAL never overrides
\* an explicit -s.
C15_SerialFromLastDashS ==
    DiscoveryStarted
        => serial = IF DashSCommands # {}
                    THEN << Commands[Last(DashSCommands)][2] >>
                    ELSE env_serial

\* With ANDROID_SERIAL set, a -s given after another command decides.
C15_Witness ==
    /\ pc = "discover"
    /\ env_serial = << "S1" >>
    /\ argv = << "getvar", "version", "-s", "S2" >>
    /\ serial = << "S2" >>

(***************************************************************************)
(* Payload buffers.                                                        *)
(***************************************************************************)
\* The allocations handed to position i of the queue.
BuffersOf(i) ==
    { k \in 1..Len(heap) : heap[k].op = i }

\* Every Flash and Download of q carries one live, untouched buffer.
PayloadsValid(q) ==
    \A i \in 1..Len(q) :
       q[i].op \in { "Flash", "Download" }
          => /\ Cardinality(BuffersOf(i)) = 1
             /\ \A k \in BuffersOf(i) :
                   ~heap[k].freed /\ heap[k].buf = q[i].data /\ heap[k].buf # <<>>

\* C16: every payload buffer enqueued in a Flash or Download operation (by
\* flash, signature or flashall) is never freed or overwritten afterwards:
\* buffers are released only on the failure paths of load_file and
\* unzip_file, before the buffer is ever enqueued, so when the engine is
\* invoked every queued payload is still valid.
C16_PayloadsStayValid ==
    /\ [](/\ PayloadsValid(queue)
          /\ engine # <<>> => PayloadsValid(engine[2])
          /\ \A k \in 1..Len(heap) :
                heap[k].freed => heap[k].op = 0 /\ heap[k].buf = <<>>)
    /\ [][ /\ Len(heap') >= Len(heap)
           /\ \A k \in 1..Len(heap) : heap'[k] = heap[k]
         ]_vars

\* The engine ran a queue with a payload of flash and five of flashall.
C16_Witness ==
    /\ engine # <<>>
    /\ CountOp(engine[2], "Flash") = 6
    /\ \E k \in 1..Len(heap) : heap[k].by = "load_file" /\ heap[k].op = 1
    /\ \E k \in 1..Len(heap) : heap[k].by = "unzip_file" /\ heap[k].op = 10

(***************************************************************************)
(* oem.                                                                    *)
(***************************************************************************)
\* The words ws concatenated with single spaces.
RECURSIVE Joined(_)
Joined(ws) ==
    IF ws = <<>> THEN ""
    ELSE IF Len(ws) = 1 THEN ws[1]
    ELSE ws[1] \o " " \o Joined(Tail(ws))

\* The commands before the last one set this intent.
GivenBeforeLast(leads) ==
    \E i \in 1..(Len(Commands) - 1) : Commands[i][1] \in leads

\* C17: `oem w1 ... wn` (n >= 1) consumes all remaining tokens and appends
\* exactly one operation, Command(joined, ""), joined being w1 ... wn
\* concatenated with single spaces; no token after oem is read as a
\* command or option (a later reboot or flash sets no intent and queues
\* nothing of its own), and parsing ends after it.
C17_OemJoinsTheRest ==
    (argv # <<>> /\ LastCommand[1] = "oem" /\ Len(LastCommand) >= 2)
        => /\ pc \in { "drained", "discover", "execute", "exited" }
           /\ Len(queue) >= mark + 1
           /\ queue[mark + 1] = Op("Command", Joined(Tail(LastCommand)), "", NoData, 0)
           /\ \A i \in (mark + 2)..Len(queue) :
                 /\ DiscoveryStarted /\ i = Len(queue)
                 /\ queue[i].op = "Reboot" \/ IsCommand(queue[i], "reboot-bootloader")
           /\ wants_reboot = 1 <=> GivenBeforeLast({ "reboot", "flashall" })
           /\ wants_reboot_bootloader = 1 <=> GivenBeforeLast({ "reboot-bootloader" })

(***************************************************************************)
(* load_file and unzip_file.                                               *)
(***************************************************************************)
\* C18: on every return path of load_file the descriptor it opened is
\* closed; on every failure path no buffer remains allocated and the null
\* result is returned; a buffer is left allocated only on success, and
\* then it holds the whole file and the reported size is the file's size.
C18_LoadFileResources ==
    loaded # <<>>
        => LET fn == loaded[1]
               r  == loaded[2]
           IN  /\ r.closed = r.opened
               /\ r.ret = <<>> => (r.allocated = r.freed /\ ~r.stored)
               /\ r.ret # <<>>
                     => /\ r.opened = 1
                        /\ r.allocated = 1 /\ r.freed = 0
                        /\ r.stored
                        /\ r.ret[1].file = fn
                        /\ Size(0, r.ret[1].len) = FileSize(fn)
                        /\ Size(0, r.sz) = FileSize(fn)

\* C19: for every archive entry of nominal uncompressed size s > 0,
\* unzip_file passes the decompressor a buffer capacity strictly greater
\* than s, while the size reported to the caller and used as the Flash
\* length is exactly s.
C19_CapacityAboveSize ==
    \A i \in 1..Len(unzipped) :
       LET name == unzipped[i][1]
           r    == unzipped[i][2]
       IN  (r.allocated = 1 /\ EntrySize(name) > 0)
              => /\ r.capacity > EntrySize(name)
                 /\ r.stored /\ r.sz = EntrySize(name)
                 /\ r.ret # <<>>
                       => \E k \in 1..Len(queue) :
                             /\ queue[k].op = "Flash"
                             /\ queue[k].data = r.ret
                             /\ queue[k].len = EntrySize(name)

====
